---- MODULE Spec2Model ----
(***************************************************************************)
(* A model of the YouTube channel exporter: src/youtube_exporter.py (the   *)
(* YouTubeExporter class and the dashboard's main) and src/run.py (the     *)
(* command-line runner).  Text is modelled as sequences of one-character   *)
(* strings, so that slicing, replacing, parsing and CSV quoting are        *)
(* computed the way the code computes them.                                *)
(***************************************************************************)
EXTENDS Integers, Sequences, FiniteSets, TLC

(***************************************************************************)
(* Bounds of the model.                                                    *)
(***************************************************************************)
\* largest hour / minute / second count of a duration token
MaxComponent == 11
\* target counts and channel sizes run over 0..MaxSmall and, around the page
\* cap, over (API_MAX - 1)..(API_MAX + MaxOver)
MaxSmall == 3
MaxOver == 2
\* the video whose item the API may deliver in an odd shape is one of the
\* first MaxOdd
MaxOdd == 2
\* the channel ids a lookup or a search may return
MaxChannels == 2
\* export_to_csv is given up to MaxRows records, of the first MaxVideoIndex
\* videos
MaxRows == 2
MaxVideoIndex == 5
\* a run asks for up to MaxRunVideos videos of a channel of up to
\* MaxRunChannel, the dashboard in batches of up to MaxBatch
MaxRunVideos == 2
MaxRunChannel == 2
\* the small channels of the multi-channel example hold up to this many videos
MaxExampleSmall == 1
MaxBatch == 2

(***************************************************************************)
(* Program constants.                                                      *)
(***************************************************************************)
\* "YouTube API max is 50 per request"
API_MAX == 50

(***************************************************************************)
(* Text helpers: Python's str operations used by the code.                 *)
(***************************************************************************)
\* None, which the code only ever tests for truth (not x): like '' and [], it
\* is the empty sequence
None == <<>>

DigitChars == <<"0", "1", "2", "3", "4", "5", "6", "7", "8", "9">>

IsDigit(c) == \E i \in 1..10 : DigitChars[i] = c

DigitVal(c) == (CHOOSE i \in 1..10 : DigitChars[i] = c) - 1

\* str(n) for an int n >= 0
RECURSIVE IntToStr(_)
IntToStr(n) ==
  IF n < 10 THEN <<DigitChars[n + 1]>>
  ELSE IntToStr(n \div 10) \o <<DigitChars[(n % 10) + 1]>>

\* int(s) for a string of decimal digits
RECURSIVE StrToInt(_)
StrToInt(s) ==
  IF Len(s) = 0 THEN 0
  ELSE 10 * StrToInt(SubSeq(s, 1, Len(s) - 1)) + DigitVal(s[Len(s)])

\* c in s
Contains(s, c) == \E i \in 1..Len(s) : s[i] = c

\* s.startswith(p)
StartsWith(s, p) == Len(s) >= Len(p) /\ SubSeq(s, 1, Len(p)) = p

\* s[n:]
Drop(s, n) == IF n >= Len(s) THEN <<>> ELSE SubSeq(s, n + 1, Len(s))

\* s[:n]
Take(s, n) == IF n >= Len(s) THEN s ELSE SubSeq(s, 1, n)

\* s.replace(old, new): every non-overlapping occurrence, left to right
RECURSIVE Replace(_, _, _)
Replace(s, old, new) ==
  IF Len(s) = 0 THEN <<>>
  ELSE IF StartsWith(s, old) THEN new \o Replace(Drop(s, Len(old)), old, new)
  ELSE <<s[1]>> \o Replace(Drop(s, 1), old, new)

(***************************************************************************)
(* _parse_duration: ISO 8601 duration token to whole seconds.              *)
(***************************************************************************)
\* the end of the maximal run of digits that starts at position i of s
RECURSIVE DigitRunEnd(_, _)
DigitRunEnd(s, i) ==
  IF i < Len(s) /\ IsDigit(s[i + 1]) THEN DigitRunEnd(s, i + 1) ELSE i

\* re.search(r'(\d+)X', s) matches at i: a digit run from i followed by X
MatchesAt(s, i, X) ==
  /\ IsDigit(s[i])
  /\ DigitRunEnd(s, i) < Len(s)
  /\ s[DigitRunEnd(s, i) + 1] = X

\* re.search(r'(\d+)X', s): the position of the leftmost match, 0 for no match
RegexSearch(s, X) ==
  IF \E i \in 1..Len(s) : MatchesAt(s, i, X)
  THEN CHOOSE k \in 1..Len(s) :
         /\ MatchesAt(s, k, X)
         /\ \A m \in 1..(k - 1) : ~MatchesAt(s, m, X)
  ELSE 0

\* .group(1) of the match at position i: the digits
Group1(s, i) == SubSeq(s, i, DigitRunEnd(s, i))

\* the amount one marker contributes: 0 when the marker letter is absent
Component(d, X, weight) ==
  IF Contains(d, X) THEN StrToInt(Group1(d, RegexSearch(d, X))) * weight ELSE 0

\* a marker letter is present but no digits precede it: re.search returns
\* None and .group raises AttributeError
ParseDurationRaises(duration) ==
  LET d == Replace(duration, <<"P", "T">>, <<>>)
  IN  \E X \in {"H", "M", "S"} : Contains(d, X) /\ RegexSearch(d, X) = 0

ParseDurationMinutesDropped(duration) ==
  LET d == Replace(duration, <<"P", "T">>, <<>>)
  IN  Component(d, "H", 3600) + Component(d, "S", 1)

ParseDuration(duration) ==
  LET d == Replace(duration, <<"P", "T">>, <<>>)
  IN  Component(d, "H", 3600) + Component(d, "M", 60) + Component(d, "S", 1)

(***************************************************************************)
(* Duration tokens "PT[nH][nM][nS]" as the API formats them.               *)
(***************************************************************************)
Absent == -1

ComponentValues == {Absent} \cup (0..MaxComponent)

Part(n, X) == IF n = Absent THEN <<>> ELSE IntToStr(n) \o <<X>>

DurationToken(h, m, s) == <<"P", "T">> \o Part(h, "H") \o Part(m, "M") \o Part(s, "S")

Amount(n) == IF n = Absent THEN 0 ELSE n

(***************************************************************************)
(* The channel as the API sees it: its public videos, newest first.  The   *)
(* i-th video has the identifier "v<i>".                                   *)
(***************************************************************************)
VideoId(i) == <<"v">> \o IntToStr(i)

IndexOfVideo(id) == StrToInt(Drop(id, 1))

ChannelOfSize(n) == [i \in 1..n |-> VideoId(i)]

Sizes == (0..MaxSmall) \cup ((API_MAX - 1)..(API_MAX + MaxOver)) \cup {2 * API_MAX + 1}

Min(a, b) == IF a < b THEN a ELSE b

Max(a, b) == IF a > b THEN a ELSE b

\* s[:n] of Python, n of either sign
SliceTo(s, n) == IF n >= 0 THEN Take(s, n) ELSE Take(s, Max(0, Len(s) + n))

\* s[i:j] for 0 <= i <= j, in Python's 0-based positions
Slice(s, i, j) == Drop(Take(s, j), i)

\* the absent continuation cursor (None, or no nextPageToken key)
NoToken == 0

(***************************************************************************)
(* The video items of a videos().list response.  A dict is a function on   *)
(* its keys; an absent key is absent from the DOMAIN.                      *)
(***************************************************************************)
SampleTexts ==
  << <<"a">>,
     <<"a", ",", "b">>,
     <<"\"", "a", "\"">>,
     <<"a", "\n", "b">>,
     <<"a", "\r", "b">>,
     <<>> >>

TextOf(i) == SampleTexts[(i % Len(SampleTexts)) + 1]

PublishedAt(i) ==
  <<"2", "0", "2", "4", "-", "0", "1", "-", "0">> \o <<DigitChars[(i % 9) + 2]>>
    \o <<"T", "0", "3", ":", "0", "4", ":", "0", "5", "Z">>

RemoveKey(d, k) == [x \in DOMAIN d \ {k} |-> d[x]]

FullItem(i) ==
  [id |-> VideoId(i),
   snippet |-> [title |-> <<"T">> \o TextOf(i),
                publishedAt |-> PublishedAt(i),
                description |-> TextOf(i + 3),
                tags |-> <<TextOf(i), <<"x">>>>],
   statistics |-> [viewCount |-> IntToStr(10 * i),
                   likeCount |-> IntToStr(i),
                   commentCount |-> <<"7">>],
   contentDetails |-> [duration |-> DurationToken(Absent, i % 60, 3)]]

\* the shapes the API documents: a counter, the tags or the description of a
\* video may be absent
OptionalKeys == {"viewCount", "likeCount", "commentCount", "tags", "description"}

\* the further shapes: an expected object or field is absent
RequiredKeys == {"snippet", "statistics", "contentDetails", "title", "publishedAt",
                 "duration", "id"}

Shapes == {"full"} \cup OptionalKeys \cup RequiredKeys

\* the item of video i with the key `shape` left out
Item(i, shape) ==
  LET f == FullItem(i)
  IN  CASE shape = "full" -> f
        [] shape \in {"id", "snippet", "statistics", "contentDetails"} ->
             RemoveKey(f, shape)
        [] shape \in {"title", "publishedAt", "description", "tags"} ->
             [f EXCEPT !.snippet = RemoveKey(f.snippet, shape)]
        [] shape \in {"viewCount", "likeCount", "commentCount"} ->
             [f EXCEPT !.statistics = RemoveKey(f.statistics, shape)]
        [] shape = "duration" ->
             [f EXCEPT !.contentDetails = RemoveKey(f.contentDetails, shape)]

(***************************************************************************)
(* _process_video_data: a video item to a flat record.                     *)
(***************************************************************************)
\* d.get(k, default)
Get(d, k, default) == IF k \in DOMAIN d THEN d[k] ELSE default

\* ','.join(list)
RECURSIVE Join(_)
Join(list) ==
  IF Len(list) = 0 THEN <<>>
  ELSE IF Len(list) = 1 THEN list[1]
  ELSE list[1] \o <<",">> \o Join(Tail(list))

UrlPrefix ==
  <<"h", "t", "t", "p", "s", ":", "/", "/", "w", "w", "w", ".", "y", "o", "u", "t",
    "u", "b", "e", ".", "c", "o", "m", "/", "w", "a", "t", "c", "h", "?", "v", "=">>

\* a subscript video['k'] or a re.search(...).group raises (KeyError,
\* AttributeError)
ProcessRaises(video) ==
  IF "snippet" \notin DOMAIN video THEN TRUE
  ELSE IF "statistics" \notin DOMAIN video THEN TRUE
  ELSE IF "contentDetails" \notin DOMAIN video THEN TRUE
  ELSE IF "duration" \notin DOMAIN video.contentDetails THEN TRUE
  ELSE IF ParseDurationRaises(video.contentDetails.duration) THEN TRUE
  ELSE IF "publishedAt" \notin DOMAIN video.snippet THEN TRUE
  ELSE IF "title" \notin DOMAIN video.snippet THEN TRUE
  ELSE "id" \notin DOMAIN video

FieldNames ==
  <<"title", "video_id", "url", "view_count", "like_count", "comment_count",
    "publish_date", "duration_seconds", "description", "tags", "transcript",
    "content">>

ProcessVideoData(video) ==
  LET snippet == video.snippet
      statistics == video.statistics
      description == Replace(Get(snippet, "description", <<>>), <<"\n">>, <<" ">>)
  IN  [title |-> snippet.title,
       video_id |-> video.id,
       url |-> UrlPrefix \o video.id,
       view_count |-> Get(statistics, "viewCount", <<"0">>),
       like_count |-> Get(statistics, "likeCount", <<"0">>),
       comment_count |-> Get(statistics, "commentCount", <<"0">>),
       publish_date |-> Take(snippet.publishedAt, 10),
       duration_seconds |-> ParseDuration(video.contentDetails.duration),
       description |-> description,
       tags |-> IF Len(Get(snippet, "tags", <<>>)) > 0
                THEN Join(Get(snippet, "tags", <<>>)) ELSE <<>>,
       transcript |-> description,
       content |-> description]

(***************************************************************************)
(* export_to_csv: csv.DictWriter with the default dialect (delimiter ",",  *)
(* quotechar '"', doublequote, QUOTE_MINIMAL, lineterminator "\r\n"), and  *)
(* the csv reader that reads the file back.                                *)
(***************************************************************************)
\* the fieldnames as the text written to the header row
HeaderText ==
  << <<"t", "i", "t", "l", "e">>,
     <<"v", "i", "d", "e", "o", "_", "i", "d">>,
     <<"u", "r", "l">>,
     <<"v", "i", "e", "w", "_", "c", "o", "u", "n", "t">>,
     <<"l", "i", "k", "e", "_", "c", "o", "u", "n", "t">>,
     <<"c", "o", "m", "m", "e", "n", "t", "_", "c", "o", "u", "n", "t">>,
     <<"p", "u", "b", "l", "i", "s", "h", "_", "d", "a", "t", "e">>,
     <<"d", "u", "r", "a", "t", "i", "o", "n", "_", "s", "e", "c", "o", "n", "d", "s">>,
     <<"d", "e", "s", "c", "r", "i", "p", "t", "i", "o", "n">>,
     <<"t", "a", "g", "s">>,
     <<"t", "r", "a", "n", "s", "c", "r", "i", "p", "t">>,
     <<"c", "o", "n", "t", "e", "n", "t">> >>

\* str(value) as the writer applies it: duration_seconds is the one int
FieldText(record, name) ==
  IF name = "duration_seconds" THEN IntToStr(record[name]) ELSE record[name]

\* the row DictWriter._dict_to_list builds: the fields in fieldnames order
DictToList(record) == [f \in 1..Len(FieldNames) |-> FieldText(record, FieldNames[f])]

\* extrasaction='raise': a key outside fieldnames raises ValueError
HasExtraKeys(record) ==
  DOMAIN record \ {FieldNames[f] : f \in 1..Len(FieldNames)} # {}

\* QUOTE_MINIMAL: a field holding the delimiter, the quotechar or a line
\* break is quoted
NeedsQuote(s) == \E i \in 1..Len(s) : s[i] \in {",", "\"", "\r", "\n"}

QuoteFieldNoDoubling(s) ==
  IF NeedsQuote(s) THEN <<"\"">> \o s \o <<"\"">> ELSE s

\* doublequote: a quotechar inside a quoted field is written twice
QuoteField(s) ==
  IF NeedsQuote(s)
  THEN <<"\"">> \o Replace(s, <<"\"">>, <<"\"", "\"">>) \o <<"\"">>
  ELSE s

\* writer.writerow(fields)
WriteRow(fields) ==
  Join([f \in 1..Len(fields) |-> QuoteField(fields[f])]) \o <<"\r", "\n">>

RECURSIVE WriteRows(_)
WriteRows(rows) ==
  IF Len(rows) = 0 THEN <<>>
  ELSE WriteRow(DictToList(rows[1])) \o WriteRows(Tail(rows))

\* the file after writeheader() and writerows(videos_data)
CsvText(rows) == WriteRow(HeaderText) \o WriteRows(rows)

\* csv.reader over the text of a file opened with newline='', field by
\* field.  The end of an unquoted stretch that starts at i: the position of
\* the next delimiter or line break, or one past the text
FieldEnd(text, i) ==
  CHOOSE j \in i..(Len(text) + 1) :
    /\ j = Len(text) + 1 \/ text[j] \in {",", "\r", "\n"}
    /\ \A k \in i..(j - 1) : text[k] \notin {",", "\r", "\n"}

\* a quotechar at j closes the quoted field opened at i: it is not the
\* second of a doubled pair and no quotechar follows it
Closes(text, i, j) ==
  /\ text[j] = "\""
  /\ Cardinality({k \in (i + 1)..(j - 1) : text[k] = "\""}) % 2 = 0
  /\ j = Len(text) \/ text[j + 1] # "\""

\* the position of the closing quotechar, or one past the text
ClosingQuote(text, i) ==
  IF \E j \in (i + 1)..Len(text) : Closes(text, i, j)
  THEN CHOOSE j \in (i + 1)..Len(text) :
         /\ Closes(text, i, j)
         /\ \A k \in (i + 1)..(j - 1) : ~Closes(text, i, k)
  ELSE Len(text) + 1

\* the field that starts at i, and the position after it
ReadField(text, i) ==
  IF i <= Len(text) /\ text[i] = "\""
  THEN LET q == ClosingQuote(text, i)
           e == FieldEnd(text, Min(q + 1, Len(text) + 1))
       IN  [field |-> Replace(SubSeq(text, i + 1, q - 1), <<"\"", "\"">>, <<"\"">>)
                        \o SubSeq(text, q + 1, e - 1),
            next |-> e]
  ELSE LET e == FieldEnd(text, i)
       IN  [field |-> SubSeq(text, i, e - 1), next |-> e]

RECURSIVE ReadRecords(_, _)
RECURSIVE ReadRecord(_, _, _)
\* the records from position i on, i being the start of a record
ReadRecords(text, i) ==
  IF i > Len(text) THEN <<>>
  ELSE IF text[i] \in {"\r", "\n"} THEN ReadRecords(text, i + 1)
  ELSE ReadRecord(text, i, <<>>)

\* the records from position i on, i being the start of a field of a record
\* whose earlier fields are `row`
ReadRecord(text, i, row) ==
  LET r == ReadField(text, i)
      fields == Append(row, r.field)
  IN  IF r.next > Len(text) THEN <<fields>>
      ELSE IF text[r.next] = "," THEN ReadRecord(text, r.next + 1, fields)
      ELSE <<fields>> \o ReadRecords(text, r.next + 1)

\* list(csv.reader(file))
ReadBack(text) == ReadRecords(text, 1)

(***************************************************************************)
(* get_channel_id_from_username: the responses of channels().list and of   *)
(* search().list(type='channel').                                          *)
(***************************************************************************)
\* a channel id: "UC" and 22 more characters
ChannelIdOf(k) == <<"U", "C">> \o [i \in 1..22 |-> DigitChars[k + 1]]

\* s.lstrip('@')
RECURSIVE LStrip(_, _)
LStrip(s, c) == IF Len(s) > 0 /\ s[1] = c THEN LStrip(Tail(s), c) ELSE s

\* the lists of channels a response may hold
ItemLists ==
  {<<>>} \cup {<<ChannelIdOf(a)>> : a \in 1..MaxChannels}
         \cup {<<ChannelIdOf(a), ChannelIdOf(b)>> : a, b \in 1..MaxChannels}

\* a response is a dict with or without the key 'items'
Responses == {[kind |-> "response"]} \cup {[kind |-> "response", items |-> l] : l \in ItemLists}

\* 'items' in search_response and search_response['items']
HasItems(response) == "items" \in DOMAIN response /\ Len(response.items) > 0

Usernames == {<<"m">>, <<"@", "m">>, <<"@", "@", "m", "@">>, <<>>}

VARIABLES
  mode,             \* which entry point is running
  pc,               \* position of the running procedure
  duration,         \* _parse_duration: the argument
  hms,              \* the components the token was formatted from
  total_seconds,    \* _parse_duration: the returned value
  channel,          \* the API's list of the channel's video ids
  max_results,      \* get_channel_videos: the argument
  video_ids,        \* get_channel_videos: the accumulator
  next_page_token,  \* get_channel_videos: the cursor for the next request
  page_requests,    \* number of search().list requests issued by the loop
  request_token,    \* pageToken carried by the latest request
  response_token,   \* nextPageToken of the latest response
  pages_accepted,   \* the ids of the pages received, concatenated
  pages_count,      \* the number of pages received
  cv_error,         \* an HttpError was caught by get_channel_videos
  cv_result,        \* get_channel_videos: the returned list
  odd_index,        \* the video whose item has the shape odd_shape (0: none)
  odd_shape,        \* the key the API leaves out of that video's item
  vd_ids,           \* get_video_details: the argument
  vd_i,             \* get_video_details: the loop index i
  videos_data,      \* get_video_details: the accumulator
  vd_log,           \* the videos().list requests issued, with their outcomes
  vd_result,        \* get_video_details: the returned list
  username,         \* get_channel_id_from_username: the argument
  res_log,          \* the requests the resolver issued, with their responses
  channel_id,       \* the resolved channel id, or None
  csv_rows,         \* export_to_csv: the argument videos_data
  filename,         \* export_to_csv: the argument filename, or None
  now,              \* datetime.now(), in seconds
  files,            \* the file system: the text of each file, or None
  csv_result,       \* export_to_csv: the returned filename
  exception,        \* the exception that left the running procedure
  timeline,         \* the detail requests and the sleeps, in order
  args,             \* the inputs of a run (command line, or dashboard widgets)
  info_outcome,     \* how get_channel_info went
  all_videos_data,  \* the dashboard's accumulator
  batch_i,          \* the dashboard's loop index i
  exit_code,        \* the process's exit code
  outcome,          \* the dashboard's last message
  channel_i,        \* example_channel_comparison: how many channels were taken
  all_data          \* example_channel_comparison: the accumulator

durVars == <<duration, hms, total_seconds>>

cvVars == <<channel, max_results, video_ids, next_page_token, page_requests,
            request_token, response_token, pages_accepted, pages_count, cv_error,
            cv_result>>

apiVars == <<odd_index, odd_shape>>

vdVars == <<vd_ids, vd_i, videos_data, vd_log, vd_result>>

resVars == <<username, res_log, channel_id>>

csvVars == <<csv_rows, filename, now, files, csv_result>>

exVars == <<channel_i, all_data>>

runVars == <<args, info_outcome, all_videos_data, batch_i, exit_code, outcome, exVars>>

vars == <<mode, pc, exception, timeline, durVars, cvVars, apiVars, vdVars, resVars,
          csvVars, runVars>>

exceptDur == <<mode, exception, timeline, cvVars, apiVars, vdVars, resVars, csvVars,
               runVars>>

exceptCv == <<mode, exception, timeline, durVars, apiVars, vdVars, resVars, csvVars,
              runVars>>

exceptVd == <<mode, exception, durVars, cvVars, apiVars, resVars, csvVars, runVars>>

exceptRes == <<mode, exception, timeline, durVars, cvVars, apiVars, vdVars, csvVars,
               runVars>>

exceptCsv == <<mode, timeline, durVars, cvVars, apiVars, vdVars, resVars, runVars>>

DurIdle == duration = <<>> /\ hms = <<>> /\ total_seconds = None

CvIdle ==
  /\ channel = <<>>
  /\ max_results = 0
  /\ video_ids = <<>>
  /\ next_page_token = NoToken
  /\ page_requests = 0
  /\ request_token = NoToken
  /\ response_token = NoToken
  /\ pages_accepted = <<>>
  /\ pages_count = 0
  /\ cv_error = FALSE
  /\ cv_result = None

ApiIdle == odd_index = 0 /\ odd_shape = "full"

VdIdle ==
  /\ vd_ids = <<>>
  /\ vd_i = 0
  /\ videos_data = <<>>
  /\ vd_log = <<>>
  /\ vd_result = None

NotExited == -1

ExIdle == channel_i = 0 /\ all_data = <<>>

RunIdle ==
  /\ ExIdle
  /\ exception = "none"
  /\ timeline = <<>>
  /\ args = <<>>
  /\ info_outcome = "none"
  /\ all_videos_data = <<>>
  /\ batch_i = 0
  /\ exit_code = NotExited
  /\ outcome = "none"

ResIdle == username = <<>> /\ res_log = <<>> /\ channel_id = None

\* the files a run may write: the one named by the caller and the one named
\* after the clock
GivenName == <<"out.csv">>

GeneratedName(t) == <<"youtube_export_", t, ".csv">>

\* a file that does not exist, and one that holds a text
NoFile == [exists |-> FALSE, text |-> <<>>]

FileOf(text) == [exists |-> TRUE, text |-> text]

NoFiles == [f \in {GivenName, GeneratedName(0)} |-> NoFile]

CsvIdle ==
  /\ csv_rows = <<>>
  /\ filename = None
  /\ now = 0
  /\ files = NoFiles
  /\ csv_result = None

(***************************************************************************)
(* _parse_duration on well-formed tokens.                                  *)
(***************************************************************************)
InitDuration ==
  /\ mode = "parse_duration"
  /\ pc = "parse_duration"
  /\ hms \in ComponentValues \X ComponentValues \X ComponentValues
  /\ duration = DurationToken(hms[1], hms[2], hms[3])
  /\ total_seconds = None
  /\ CvIdle /\ ApiIdle /\ VdIdle /\ ResIdle /\ CsvIdle /\ RunIdle

ParseDurationCall ==
  /\ pc = "parse_duration"
  /\ IF ParseDurationRaises(duration)
     THEN pc' = "parse_duration_raised" /\ UNCHANGED total_seconds
     ELSE pc' = "parse_duration_done" /\ total_seconds' = ParseDuration(duration)
  /\ UNCHANGED <<duration, hms, exceptDur>>

NextDuration == ParseDurationCall

SpecDuration == InitDuration /\ [][NextDuration]_vars

(***************************************************************************)
(* get_channel_videos: the pagination loop.  One action per way an         *)
(* iteration can go; the return statement is part of the action that       *)
(* leaves the loop.                                                        *)
(***************************************************************************)
\* request_max = min(50, remaining)
RequestMax(ids, n) == Min(API_MAX, n - Len(ids))

\* the offset in the channel a cursor stands for
Offset(token) == token

\* the numbers of items the API may put in a page when `rem` videos remain
\* after the cursor: the full page, a short page, or a page that ignores
\* maxResults by one item
PageSizes(request_max, rem) ==
  {Min(request_max, rem), Min(1, rem), Min(request_max + 1, rem)} \ {0}

\* whether the API is held to nothing: it may end the listing early, hand
\* out a cursor with the last videos, or answer with a page without items
AnyApi == mode = "get_channel_videos_any_api"

\* the cursors a response may carry whose items end at position `end` of the
\* channel; when the API serves the channel as documented the cursor is
\* absent exactly at the end of the channel
Cursors(end) ==
  IF AnyApi THEN {NoToken, end}
  ELSE {IF end < Len(channel) THEN end ELSE NoToken}

\* the cursors a response without items may carry when asked for the page
\* at offset off
EmptyPageCursors(off) == IF AnyApi THEN {NoToken, Max(off, 1)} ELSE {NoToken}

\* where an exception that leaves a procedure is caught
OnRaise ==
  CASE mode = "cli" -> "cli_except"
    [] mode = "dash" -> "dash_except"
    [] OTHER -> "raised"

\* where get_channel_videos returns to
AfterVideos ==
  CASE mode = "cli" -> "cli_details"
    [] mode = "dash" -> "dash_check_videos"
    [] mode = "example" -> "ex_details"
    [] OTHER -> "cv_done"

ReturnNoSlice(ids, n) == ids

\* return video_ids[:max_results]
Return(ids, n) == SliceTo(ids, n)

\* while len(video_ids) < max_results: false
CvLoopExit ==
  /\ pc = "cv_loop"
  /\ ~(Len(video_ids) < max_results)
  /\ cv_result' = Return(video_ids, max_results)
  /\ pc' = AfterVideos
  /\ UNCHANGED <<channel, max_results, video_ids, next_page_token, page_requests,
                 request_token, response_token, pages_accepted, pages_count,
                 cv_error, exceptCv>>

CvPageItemsCursorKept ==
  /\ pc = "cv_loop"
  /\ Len(video_ids) < max_results
  /\ LET off == Offset(next_page_token)
         rem == Len(channel) - off
     IN  /\ rem > 0
         /\ \E k \in PageSizes(RequestMax(video_ids, max_results), rem) :
            \E token \in Cursors(off + k) :
              LET items == SubSeq(channel, off + 1, off + k)
                  ids   == video_ids \o items
              IN  /\ video_ids' = ids
                  /\ pages_accepted' = pages_accepted \o items
                  /\ response_token' = token
                  /\ IF token = NoToken
                     THEN /\ cv_result' = Return(ids, max_results)
                          /\ pc' = AfterVideos
                     ELSE UNCHANGED <<cv_result, pc>>
  /\ request_token' = next_page_token
  /\ page_requests' = page_requests + 1
  /\ pages_count' = pages_count + 1
  /\ UNCHANGED <<channel, max_results, next_page_token, cv_error, exceptCv>>

\* the request of one iteration, and a response that holds items
CvPageItems ==
  /\ pc = "cv_loop"
  /\ Len(video_ids) < max_results
  /\ LET off == Offset(next_page_token)
         rem == Len(channel) - off
     IN  /\ rem > 0
         /\ \E k \in PageSizes(RequestMax(video_ids, max_results), rem) :
            \E token \in Cursors(off + k) :
              LET items == SubSeq(channel, off + 1, off + k)
                  ids   == video_ids \o items
              IN  /\ video_ids' = ids
                  /\ pages_accepted' = pages_accepted \o items
                  /\ response_token' = token
                  /\ next_page_token' = token
                  /\ IF token = NoToken
                     THEN /\ cv_result' = Return(ids, max_results)
                          /\ pc' = AfterVideos
                     ELSE UNCHANGED <<cv_result, pc>>
  /\ request_token' = next_page_token
  /\ page_requests' = page_requests + 1
  /\ pages_count' = pages_count + 1
  /\ UNCHANGED <<channel, max_results, cv_error, exceptCv>>

CvPageEmptyRetried ==
  /\ pc = "cv_loop"
  /\ Len(video_ids) < max_results
  /\ page_requests <= Max(0, max_results)
  /\ request_token' = next_page_token
  /\ page_requests' = page_requests + 1
  /\ response_token' \in EmptyPageCursors(Offset(next_page_token))
  /\ UNCHANGED <<pc, cv_result, channel, max_results, video_ids, next_page_token,
                 pages_accepted, pages_count, cv_error, exceptCv>>

\* the request of one iteration, and a response without items: the loop is
\* left before the response's cursor is read
CvPageEmpty ==
  /\ pc = "cv_loop"
  /\ Len(video_ids) < max_results
  /\ AnyApi \/ Len(channel) - Offset(next_page_token) <= 0
  /\ request_token' = next_page_token
  /\ page_requests' = page_requests + 1
  /\ response_token' \in EmptyPageCursors(Offset(next_page_token))
  /\ cv_result' = Return(video_ids, max_results)
  /\ pc' = AfterVideos
  /\ UNCHANGED <<channel, max_results, video_ids, next_page_token,
                 pages_accepted, pages_count, cv_error, exceptCv>>

CvPageHttpErrorRetried ==
  /\ pc = "cv_loop"
  /\ Len(video_ids) < max_results
  /\ ~cv_error
  /\ request_token' = next_page_token
  /\ page_requests' = page_requests + 1
  /\ cv_error' = TRUE
  /\ UNCHANGED <<pc, cv_result, channel, max_results, video_ids, next_page_token,
                 response_token, pages_accepted, pages_count, exceptCv>>

\* the request of one iteration fails with HttpError
CvPageHttpError ==
  /\ pc = "cv_loop"
  /\ Len(video_ids) < max_results
  /\ request_token' = next_page_token
  /\ page_requests' = page_requests + 1
  /\ cv_error' = TRUE
  /\ cv_result' = Return(video_ids, max_results)
  /\ pc' = AfterVideos
  /\ UNCHANGED <<channel, max_results, video_ids, next_page_token,
                 response_token, pages_accepted, pages_count, exceptCv>>

\* the request of one iteration, and a response with an item that lacks
\* 'id' or 'videoId': item['id']['videoId'] raises KeyError, which the
\* except HttpError clause does not catch
CvPageRaises ==
  /\ pc = "cv_loop"
  /\ Len(video_ids) < max_results
  /\ AnyApi
  /\ request_token' = next_page_token
  /\ page_requests' = page_requests + 1
  /\ exception' = "KeyError"
  /\ pc' = OnRaise
  /\ UNCHANGED <<mode, timeline, channel, max_results, video_ids, next_page_token,
                 response_token, pages_accepted, pages_count, cv_error, cv_result,
                 durVars, apiVars, vdVars, resVars, csvVars, runVars>>

GetChannelVideos == CvLoopExit \/ CvPageItems \/ CvPageEmpty \/ CvPageHttpError

InitVideos ==
  /\ mode = "get_channel_videos"
  /\ pc = "cv_loop"
  /\ DurIdle /\ ApiIdle /\ VdIdle /\ ResIdle /\ CsvIdle /\ RunIdle
  /\ \E n \in Sizes : channel = ChannelOfSize(n)
  /\ max_results \in Sizes
  /\ video_ids = <<>>
  /\ next_page_token = NoToken
  /\ page_requests = 0
  /\ request_token = NoToken
  /\ response_token = NoToken
  /\ pages_accepted = <<>>
  /\ pages_count = 0
  /\ cv_error = FALSE
  /\ cv_result = None

NextVideos == GetChannelVideos

SpecVideos == InitVideos /\ [][NextVideos]_vars

\* get_channel_videos against an API held to nothing, for target counts of
\* either sign
InitVideosAnyApi ==
  /\ mode = "get_channel_videos_any_api"
  /\ pc = "cv_loop"
  /\ DurIdle /\ ApiIdle /\ VdIdle /\ ResIdle /\ CsvIdle /\ RunIdle
  /\ \E n \in Sizes : channel = ChannelOfSize(n)
  /\ max_results \in Sizes \cup {-1}
  /\ video_ids = <<>>
  /\ next_page_token = NoToken
  /\ page_requests = 0
  /\ request_token = NoToken
  /\ response_token = NoToken
  /\ pages_accepted = <<>>
  /\ pages_count = 0
  /\ cv_error = FALSE
  /\ cv_result = None

NextVideosAnyApi == GetChannelVideos \/ CvPageRaises

SpecVideosAnyApi == InitVideosAnyApi /\ [][NextVideosAnyApi]_vars

\* every request is answered or fails: an iteration that has begun ends
SpecVideosTerminates == SpecVideosAnyApi /\ WF_vars(NextVideosAnyApi)

(***************************************************************************)
(* get_video_details: the batch loop.                                      *)
(***************************************************************************)
\* the item the API holds for a video id
ItemOf(id) ==
  LET i == IndexOfVideo(id)
  IN  Item(i, IF i = odd_index THEN odd_shape ELSE "full")

\* the items of a response: one per requested id, or all but the first
\* (a video that was deleted since it was listed)
ResponseKinds == {"all", "but_first"}

ResponseItems(batch_ids, kind) ==
  LET ids == IF kind = "all" THEN batch_ids ELSE Tail(batch_ids)
  IN  [j \in 1..Len(ids) |-> ItemOf(ids[j])]

\* the ids the items of a response carry
IdsOf(items) == [j \in 1..Len(items) |-> items[j].id]

BatchIdsOverlapping(ids, i) == Slice(ids, i, i + API_MAX + 1)

\* batch_ids = video_ids[i:i+50]
BatchIds(ids, i) == Slice(ids, i, i + API_MAX)

\* the loop body's records for a response's items
Records(items) == [j \in 1..Len(items) |-> ProcessVideoData(items[j])]

\* where get_video_details returns to
AfterDetails ==
  CASE mode = "cli" -> "cli_export"
    [] mode = "dash" -> "dash_after_batch"
    [] mode = "example" -> "ex_add_channel_name"
    [] OTHER -> "vd_done"

\* one iteration: the request, and a response whose items are all flattened
VdChunkItems ==
  /\ pc = "vd_loop"
  /\ vd_i < Len(vd_ids)
  /\ \E kind \in ResponseKinds :
       LET batch_ids == BatchIds(vd_ids, vd_i)
           items == ResponseItems(batch_ids, kind)
       IN  /\ Len(items) > 0
           /\ \A j \in 1..Len(items) : ~ProcessRaises(items[j])
           /\ videos_data' = videos_data \o Records(items)
           /\ vd_log' = Append(vd_log, [batch_ids |-> batch_ids, outcome |-> "items",
                                        delivered |-> IdsOf(items)])
  /\ vd_i' = vd_i + API_MAX
  /\ timeline' = Append(timeline, "request")
  /\ UNCHANGED <<pc, vd_ids, vd_result, exceptVd>>

\* one iteration: the request, and a response without items
VdChunkNoItems ==
  /\ pc = "vd_loop"
  /\ vd_i < Len(vd_ids)
  /\ vd_log' = Append(vd_log, [batch_ids |-> BatchIds(vd_ids, vd_i),
                               outcome |-> "none", delivered |-> <<>>])
  /\ vd_i' = vd_i + API_MAX
  /\ timeline' = Append(timeline, "request")
  /\ UNCHANGED <<pc, vd_ids, videos_data, vd_result, exceptVd>>

VdChunkHttpErrorBreaks ==
  /\ pc = "vd_loop"
  /\ vd_i < Len(vd_ids)
  /\ vd_log' = Append(vd_log, [batch_ids |-> BatchIds(vd_ids, vd_i),
                               outcome |-> "error", delivered |-> <<>>])
  /\ vd_i' = Len(vd_ids)
  /\ timeline' = Append(timeline, "request")
  /\ UNCHANGED <<pc, vd_ids, videos_data, vd_result, exceptVd>>

\* one iteration: the request fails with HttpError
VdChunkHttpError ==
  /\ pc = "vd_loop"
  /\ vd_i < Len(vd_ids)
  /\ vd_log' = Append(vd_log, [batch_ids |-> BatchIds(vd_ids, vd_i),
                               outcome |-> "error", delivered |-> <<>>])
  /\ vd_i' = vd_i + API_MAX
  /\ timeline' = Append(timeline, "request")
  /\ UNCHANGED <<pc, vd_ids, videos_data, vd_result, exceptVd>>

\* one iteration: the request, and a response with an item that
\* _process_video_data raises on; the exception leaves get_video_details
VdChunkRaises ==
  /\ pc = "vd_loop"
  /\ vd_i < Len(vd_ids)
  /\ \E kind \in ResponseKinds :
       LET batch_ids == BatchIds(vd_ids, vd_i)
           items == ResponseItems(batch_ids, kind)
       IN  /\ \E j \in 1..Len(items) : ProcessRaises(items[j])
           /\ vd_log' = Append(vd_log, [batch_ids |-> batch_ids, outcome |-> "raised",
                                        delivered |-> <<>>])
  /\ timeline' = Append(timeline, "request")
  /\ exception' = "KeyError"
  /\ pc' = OnRaise
  /\ UNCHANGED <<mode, vd_ids, vd_i, videos_data, vd_result, durVars, cvVars, apiVars,
                 resVars, csvVars, runVars>>

\* the range is exhausted: return videos_data
VdReturn ==
  /\ pc = "vd_loop"
  /\ ~(vd_i < Len(vd_ids))
  /\ vd_result' = videos_data
  /\ pc' = AfterDetails
  /\ UNCHANGED <<vd_ids, vd_i, videos_data, vd_log, timeline, exceptVd>>

GetVideoDetails == VdChunkItems \/ VdChunkNoItems \/ VdChunkHttpError \/ VdReturn

\* the API delivers items in the shapes it documents
InitDetails ==
  /\ mode = "get_video_details"
  /\ pc = "vd_loop"
  /\ DurIdle /\ CvIdle /\ ResIdle /\ CsvIdle /\ RunIdle
  /\ odd_index \in 0..MaxOdd
  /\ odd_shape \in IF odd_index = 0 THEN {"full"} ELSE OptionalKeys
  /\ \E n \in Sizes : vd_ids = ChannelOfSize(n)
  /\ vd_i = 0
  /\ videos_data = <<>>
  /\ vd_log = <<>>
  /\ vd_result = None

NextDetails == GetVideoDetails

SpecDetails == InitDetails /\ [][NextDetails]_vars

\* the API may deliver an item with any expected key absent
InitDetailsAnyShape ==
  /\ mode = "get_video_details"
  /\ pc = "vd_loop"
  /\ DurIdle /\ CvIdle /\ ResIdle /\ CsvIdle /\ RunIdle
  /\ odd_index \in 0..MaxOdd
  /\ odd_shape \in IF odd_index = 0 THEN {"full"} ELSE Shapes \ {"full"}
  /\ \E n \in Sizes : vd_ids = ChannelOfSize(n)
  /\ vd_i = 0
  /\ videos_data = <<>>
  /\ vd_log = <<>>
  /\ vd_result = None

NextDetailsAnyShape == GetVideoDetails \/ VdChunkRaises

SpecDetailsAnyShape == InitDetailsAnyShape /\ [][NextDetailsAnyShape]_vars

(***************************************************************************)
(* get_channel_id_from_username.                                           *)
(***************************************************************************)
\* where get_channel_id_from_username returns to
AfterResolve ==
  CASE mode = "cli" -> "cli_check_channel"
    [] mode = "dash" -> "dash_check_channel"
    [] mode = "example" -> "ex_check_channel"
    [] OTHER -> "res_done"

\* channels().list(part='id', forUsername=username.lstrip('@'))
LookupRequest == [call |-> "channels.list", forUsername |-> LStrip(username, "@")]

\* search().list(part='snippet', q=username, type='channel', maxResults=1)
SearchRequest ==
  [call |-> "search.list", q |-> LStrip(username, "@"), type |-> "channel", maxResults |-> 1]

\* the lookup holds an item: return search_response['items'][0]['id']
ResLookupFound ==
  /\ pc = "res_lookup"
  /\ \E response \in Responses :
       /\ HasItems(response)
       /\ res_log' = Append(res_log, [request |-> LookupRequest, outcome |-> response])
       /\ channel_id' = response.items[1]
  /\ pc' = AfterResolve
  /\ UNCHANGED <<username, exceptRes>>

\* the lookup holds no item: go on to the search
ResLookupNone ==
  /\ pc = "res_lookup"
  /\ \E response \in Responses :
       /\ ~HasItems(response)
       /\ res_log' = Append(res_log, [request |-> LookupRequest, outcome |-> response])
  /\ pc' = "res_search"
  /\ UNCHANGED <<username, channel_id, exceptRes>>

\* the lookup fails with HttpError: return None
ResLookupHttpError ==
  /\ pc = "res_lookup"
  /\ res_log' = Append(res_log, [request |-> LookupRequest,
                                 outcome |-> [kind |-> "HttpError"]])
  /\ channel_id' = None
  /\ pc' = AfterResolve
  /\ UNCHANGED <<username, exceptRes>>

ResSearchFoundLast ==
  /\ pc = "res_search"
  /\ \E response \in Responses :
       /\ HasItems(response)
       /\ res_log' = Append(res_log, [request |-> SearchRequest, outcome |-> response])
       /\ channel_id' = response.items[Len(response.items)]
  /\ pc' = AfterResolve
  /\ UNCHANGED <<username, exceptRes>>

\* the search holds a hit: return items[0]['snippet']['channelId']
ResSearchFound ==
  /\ pc = "res_search"
  /\ \E response \in Responses :
       /\ HasItems(response)
       /\ res_log' = Append(res_log, [request |-> SearchRequest, outcome |-> response])
       /\ channel_id' = response.items[1]
  /\ pc' = AfterResolve
  /\ UNCHANGED <<username, exceptRes>>

\* the search holds no hit: return None
ResSearchNone ==
  /\ pc = "res_search"
  /\ \E response \in Responses :
       /\ ~HasItems(response)
       /\ res_log' = Append(res_log, [request |-> SearchRequest, outcome |-> response])
  /\ channel_id' = None
  /\ pc' = AfterResolve
  /\ UNCHANGED <<username, exceptRes>>

\* the search fails with HttpError: return None
ResSearchHttpError ==
  /\ pc = "res_search"
  /\ res_log' = Append(res_log, [request |-> SearchRequest,
                                 outcome |-> [kind |-> "HttpError"]])
  /\ channel_id' = None
  /\ pc' = AfterResolve
  /\ UNCHANGED <<username, exceptRes>>

GetChannelIdFromUsername ==
  \/ ResLookupFound \/ ResLookupNone \/ ResLookupHttpError
  \/ ResSearchFound \/ ResSearchNone \/ ResSearchHttpError

InitResolve ==
  /\ mode = "get_channel_id_from_username"
  /\ pc = "res_lookup"
  /\ DurIdle /\ CvIdle /\ ApiIdle /\ VdIdle /\ CsvIdle /\ RunIdle
  /\ username \in Usernames
  /\ res_log = <<>>
  /\ channel_id = None

NextResolve == GetChannelIdFromUsername

SpecResolve == InitResolve /\ [][NextResolve]_vars

(***************************************************************************)
(* export_to_csv.                                                          *)
(***************************************************************************)
\* the name the file gets: the argument, or one made of the clock
TargetName(name, t) == IF name = None THEN GeneratedName(t) ELSE name

\* open(filename, 'w', newline='') and the writes: the text replaces the
\* file's
OpenWrite(old, text) == FileOf(text)

\* where export_to_csv returns to
AfterExport ==
  CASE mode = "cli" -> "cli_exported"
    [] mode = "dash" -> "dash_exported"
    [] mode = "example" -> "ex_exported"
    [] OTHER -> "csv_done"

\* the file is opened and written, and its name returned
ExportToCsv ==
  /\ pc = "export_to_csv"
  /\ \A j \in 1..Len(csv_rows) : ~HasExtraKeys(csv_rows[j])
  /\ LET name == TargetName(filename, now)
     IN  /\ files' = [files EXCEPT ![name] = OpenWrite(files[name], CsvText(csv_rows))]
         /\ csv_result' = name
  /\ pc' = AfterExport
  /\ UNCHANGED <<csv_rows, filename, now, exception, exceptCsv>>

\* open(filename, 'w') raises OSError: nothing is written
ExportOSError ==
  /\ pc = "export_to_csv"
  /\ exception' = "OSError"
  /\ pc' = OnRaise
  /\ UNCHANGED <<csv_rows, filename, now, files, csv_result, exceptCsv>>

\* the rows writerows writes before it meets a record with a key outside
\* fieldnames
RECURSIVE RowsBeforeExtraKeys(_)
RowsBeforeExtraKeys(rows) ==
  IF rows = <<>> \/ HasExtraKeys(rows[1]) THEN <<>>
  ELSE <<rows[1]>> \o RowsBeforeExtraKeys(Tail(rows))

\* DictWriter's default extrasaction='raise': the file is opened, the header
\* and the rows before the offending record are written, and ValueError
\* leaves export_to_csv
ExportValueError ==
  /\ pc = "export_to_csv"
  /\ \E j \in 1..Len(csv_rows) : HasExtraKeys(csv_rows[j])
  /\ LET name == TargetName(filename, now)
     IN  files' = [files EXCEPT ![name] =
                     OpenWrite(files[name], CsvText(RowsBeforeExtraKeys(csv_rows)))]
  /\ exception' = "ValueError"
  /\ pc' = OnRaise
  /\ UNCHANGED <<csv_rows, filename, now, csv_result, exceptCsv>>

\* the records export_to_csv is given: flattened items of the API
RECURSIVE RowsUpTo(_)
RowsUpTo(n) ==
  IF n = 0 THEN {<<>>}
  ELSE RowsUpTo(n - 1) \cup
       {Append(rows, ProcessVideoData(FullItem(a))) :
          rows \in RowsUpTo(n - 1), a \in 1..MaxVideoIndex}

\* what a file may hold before the call
OldFiles == {NoFile, FileOf(<<"o", "l", "d", "\r", "\n">>)}

InitCsv ==
  /\ mode = "export_to_csv"
  /\ pc = "export_to_csv"
  /\ DurIdle /\ CvIdle /\ ApiIdle /\ VdIdle /\ ResIdle /\ RunIdle
  /\ csv_rows \in RowsUpTo(MaxRows)
  /\ filename \in {None, GivenName}
  /\ now = 0
  /\ files \in [DOMAIN NoFiles -> OldFiles]
  /\ csv_result = None

NextCsv == ExportToCsv

SpecCsv == InitCsv /\ [][NextCsv]_vars

(***************************************************************************)
(* The runs: run.py's main (command line) and youtube_exporter.py's main   *)
(* (dashboard, from the Export button on).                                 *)
(***************************************************************************)
\* the channel references given to a run: a raw id, a handle, a name
ChannelRefs == {ChannelIdOf(1), <<"@", "m">>, <<"m">>}

\* --delay, and the dashboard's delay widget, in tenths of a second
Delays == {1, 10}

\* channel.startswith('UC') and len(channel) == 24
IsChannelId(ref) == StartsWith(ref, <<"U", "C">>) /\ Len(ref) = 24

\* the state of the API and of the disk at the start of a run
InitWorld ==
  /\ DurIdle /\ VdIdle /\ ResIdle
  /\ odd_index = 0 /\ odd_shape = "full"
  /\ \E n \in 0..MaxRunChannel : channel = ChannelOfSize(n)
  /\ max_results = 0
  /\ video_ids = <<>>
  /\ next_page_token = NoToken
  /\ page_requests = 0
  /\ request_token = NoToken
  /\ response_token = NoToken
  /\ pages_accepted = <<>>
  /\ pages_count = 0
  /\ cv_error = FALSE
  /\ cv_result = None
  /\ csv_rows = <<>>
  /\ filename = None
  /\ now = 0
  /\ files = NoFiles
  /\ csv_result = None
  /\ exception = "none"
  /\ timeline = <<>>
  /\ info_outcome = "none"
  /\ all_videos_data = <<>>
  /\ batch_i = 0
  /\ exit_code = NotExited
  /\ outcome = "none"
  /\ ExIdle

\* how get_channel_info can go: the info, no such channel, HttpError (caught)
InfoOutcomes == {"info", "not_found", "HttpError"}

runLocals == <<all_videos_data, batch_i, exit_code, outcome>>

exceptRun == <<mode, exception, timeline, durVars, apiVars, vdVars, csvVars, exVars>>

\* the channel is given by its id
CliUseChannelId ==
  /\ pc = "cli_start"
  /\ IsChannelId(args.channel)
  /\ channel_id' = args.channel
  /\ pc' = "cli_check_channel"
  /\ UNCHANGED <<username, res_log, args, info_outcome, runLocals, cvVars, exceptRun>>

\* channel_id = exporter.get_channel_id_from_username(args.channel)
CliResolve ==
  /\ pc = "cli_start"
  /\ ~IsChannelId(args.channel)
  /\ username' = args.channel
  /\ pc' = "res_lookup"
  /\ UNCHANGED <<channel_id, res_log, args, info_outcome, runLocals, cvVars, exceptRun>>

CliNotFoundIgnored ==
  /\ pc = "cli_check_channel"
  /\ channel_id = None
  /\ exit_code' = 0
  /\ pc' = "exit"
  /\ UNCHANGED <<args, info_outcome, all_videos_data, batch_i, outcome, resVars,
                 cvVars, exceptRun>>

\* if not channel_id: sys.exit(1)
CliNotFound ==
  /\ pc = "cli_check_channel"
  /\ channel_id = None
  /\ exit_code' = 1
  /\ pc' = "exit"
  /\ UNCHANGED <<args, info_outcome, all_videos_data, batch_i, outcome, resVars,
                 cvVars, exceptRun>>

\* get_channel_info, then the call of get_channel_videos
CliChannelInfo ==
  /\ pc = "cli_check_channel"
  /\ channel_id # None
  /\ info_outcome' \in InfoOutcomes
  /\ max_results' = args.max_videos
  /\ pc' = "cv_loop"
  /\ UNCHANGED <<args, runLocals, resVars, channel, video_ids, next_page_token,
                 page_requests, request_token, response_token, pages_accepted,
                 pages_count, cv_error, cv_result, exceptRun>>

\* videos_data = exporter.get_video_details(video_ids)
CliGetVideoDetails ==
  /\ pc = "cli_details"
  /\ vd_ids' = cv_result
  /\ vd_i' = 0
  /\ videos_data' = <<>>
  /\ pc' = "vd_loop"
  /\ UNCHANGED <<vd_log, vd_result, mode, exception, timeline, durVars, cvVars,
                 apiVars, resVars, csvVars, runVars>>

\* filename = exporter.export_to_csv(videos_data, args.output)
CliExport ==
  /\ pc = "cli_export"
  /\ csv_rows' = vd_result
  /\ filename' = args.output
  /\ pc' = "export_to_csv"
  /\ UNCHANGED <<now, files, csv_result, mode, exception, timeline, durVars, cvVars,
                 apiVars, vdVars, resVars, runVars>>

\* the end of main: the process exits with 0
CliCompleted ==
  /\ pc = "cli_exported"
  /\ exit_code' = 0
  /\ pc' = "exit"
  /\ UNCHANGED <<args, info_outcome, all_videos_data, batch_i, outcome, resVars,
                 cvVars, exceptRun>>

\* except Exception: sys.exit(1)
CliExcept ==
  /\ pc = "cli_except"
  /\ exit_code' = 1
  /\ pc' = "exit"
  /\ UNCHANGED <<args, info_outcome, all_videos_data, batch_i, outcome, resVars,
                 cvVars, exceptRun>>

CliMain ==
  \/ CliUseChannelId \/ CliResolve \/ CliNotFound \/ CliChannelInfo
  \/ CliGetVideoDetails \/ CliExport \/ CliCompleted \/ CliExcept

InitCli ==
  /\ mode = "cli"
  /\ pc = "cli_start"
  /\ InitWorld
  /\ args \in [channel : ChannelRefs, max_videos : (-1)..MaxRunVideos,
               output : {None, GivenName}, delay : Delays]

NextCli ==
  \/ CliMain \/ GetChannelIdFromUsername \/ GetChannelVideos \/ GetVideoDetails
  \/ ExportToCsv \/ ExportOSError

SpecCli == InitCli /\ [][NextCli]_vars

\* if not channel_input: return
DashNoInput ==
  /\ pc = "dash_start"
  /\ args.channel = <<>>
  /\ outcome' = "Please enter a channel name or ID"
  /\ pc' = "dash_end"
  /\ UNCHANGED <<args, info_outcome, all_videos_data, batch_i, exit_code, resVars,
                 cvVars, exceptRun>>

\* the channel is given by its id
DashUseChannelId ==
  /\ pc = "dash_start"
  /\ args.channel # <<>>
  /\ IsChannelId(args.channel)
  /\ channel_id' = args.channel
  /\ pc' = "dash_check_channel"
  /\ UNCHANGED <<username, res_log, args, info_outcome, runLocals, cvVars, exceptRun>>

\* channel_id = exporter.get_channel_id_from_username(channel_input)
DashResolve ==
  /\ pc = "dash_start"
  /\ args.channel # <<>>
  /\ ~IsChannelId(args.channel)
  /\ username' = args.channel
  /\ pc' = "res_lookup"
  /\ UNCHANGED <<channel_id, res_log, args, info_outcome, runLocals, cvVars, exceptRun>>

\* if not channel_id: return
DashNotFound ==
  /\ pc = "dash_check_channel"
  /\ channel_id = None
  /\ outcome' = "Channel not found"
  /\ pc' = "dash_end"
  /\ UNCHANGED <<args, info_outcome, all_videos_data, batch_i, exit_code, resVars,
                 cvVars, exceptRun>>

\* get_channel_info, then the call of get_channel_videos
DashChannelInfo ==
  /\ pc = "dash_check_channel"
  /\ channel_id # None
  /\ info_outcome' \in InfoOutcomes
  /\ max_results' = args.max_videos
  /\ pc' = "cv_loop"
  /\ UNCHANGED <<args, runLocals, resVars, channel, video_ids, next_page_token,
                 page_requests, request_token, response_token, pages_accepted,
                 pages_count, cv_error, cv_result, exceptRun>>

\* if not video_ids: return
DashNoVideos ==
  /\ pc = "dash_check_videos"
  /\ cv_result = <<>>
  /\ outcome' = "No videos found for this channel"
  /\ pc' = "dash_end"
  /\ UNCHANGED <<args, info_outcome, all_videos_data, batch_i, exit_code, resVars,
                 cvVars, exceptRun>>

\* all_videos_data = []; the batch loop starts
DashVideosFound ==
  /\ pc = "dash_check_videos"
  /\ cv_result # <<>>
  /\ all_videos_data' = <<>>
  /\ batch_i' = 0
  /\ pc' = "dash_batch"
  /\ UNCHANGED <<args, info_outcome, exit_code, outcome, resVars, cvVars, exceptRun>>

\* batch_video_ids = video_ids[i:i + batch_size];
\* batch_data = exporter.get_video_details(batch_video_ids)
DashBatch ==
  /\ pc = "dash_batch"
  /\ batch_i < Len(cv_result)
  /\ vd_ids' = Slice(cv_result, batch_i, batch_i + args.batch_size)
  /\ vd_i' = 0
  /\ videos_data' = <<>>
  /\ pc' = "vd_loop"
  /\ UNCHANGED <<vd_log, vd_result, mode, exception, timeline, durVars, cvVars,
                 apiVars, resVars, csvVars, runVars>>

DashAfterBatchAlwaysSleeps ==
  /\ pc = "dash_after_batch"
  /\ all_videos_data' = all_videos_data \o vd_result
  /\ timeline' = Append(timeline, "sleep")
  /\ batch_i' = batch_i + args.batch_size
  /\ pc' = "dash_batch"
  /\ UNCHANGED <<args, info_outcome, exit_code, outcome, mode, exception, durVars,
                 cvVars, apiVars, vdVars, resVars, csvVars, exVars>>

\* all_videos_data.extend(batch_data); if i + batch_size < len(video_ids):
\* time.sleep(delay_between_calls)
DashAfterBatch ==
  /\ pc = "dash_after_batch"
  /\ all_videos_data' = all_videos_data \o vd_result
  /\ timeline' = IF batch_i + args.batch_size < Len(cv_result)
                 THEN Append(timeline, "sleep") ELSE timeline
  /\ batch_i' = batch_i + args.batch_size
  /\ pc' = "dash_batch"
  /\ UNCHANGED <<args, info_outcome, exit_code, outcome, mode, exception, durVars,
                 cvVars, apiVars, vdVars, resVars, csvVars, exVars>>

\* the range is exhausted: filename = exporter.export_to_csv(all_videos_data)
DashExport ==
  /\ pc = "dash_batch"
  /\ ~(batch_i < Len(cv_result))
  /\ csv_rows' = all_videos_data
  /\ filename' = None
  /\ pc' = "export_to_csv"
  /\ UNCHANGED <<now, files, csv_result, mode, exception, timeline, durVars, cvVars,
                 apiVars, vdVars, resVars, runVars>>

\* the preview and the download button
DashCompleted ==
  /\ pc = "dash_exported"
  /\ outcome' = "Export completed"
  /\ pc' = "dash_end"
  /\ UNCHANGED <<args, info_outcome, all_videos_data, batch_i, exit_code, resVars,
                 cvVars, exceptRun>>

\* except Exception: "Export failed"
DashExcept ==
  /\ pc = "dash_except"
  /\ outcome' = "Export failed"
  /\ pc' = "dash_end"
  /\ UNCHANGED <<args, info_outcome, all_videos_data, batch_i, exit_code, resVars,
                 cvVars, exceptRun>>

DashMain ==
  \/ DashNoInput \/ DashUseChannelId \/ DashResolve \/ DashNotFound
  \/ DashChannelInfo \/ DashNoVideos \/ DashVideosFound \/ DashBatch
  \/ DashAfterBatch \/ DashExport \/ DashCompleted \/ DashExcept

InitDash ==
  /\ mode = "dash"
  /\ pc = "dash_start"
  /\ InitWorld
  /\ args \in [channel : ChannelRefs \cup {<<>>}, max_videos : 1..MaxRunVideos,
               batch_size : 1..MaxBatch, delay : Delays]

NextDash ==
  \/ DashMain \/ GetChannelIdFromUsername \/ GetChannelVideos \/ GetVideoDetails
  \/ ExportToCsv \/ ExportOSError

SpecDash == InitDash /\ [][NextDash]_vars

\* either kind of run
InitRun == InitCli \/ InitDash

NextRun ==
  \/ CliMain \/ DashMain \/ GetChannelIdFromUsername \/ GetChannelVideos
  \/ GetVideoDetails \/ ExportToCsv \/ ExportOSError

SpecRun == InitRun /\ [][NextRun]_vars

(***************************************************************************)
(* example_usage.py's example_channel_comparison: the loop over the        *)
(* channels and the export of the combined records.                        *)
(***************************************************************************)
\* channels = ["mkbhd", "linustechtips", "davidpakman"]
Channels ==
  << <<"m", "k", "b", "h", "d">>,
     <<"l", "i", "n", "u", "s", "t", "e", "c", "h", "t", "i", "p", "s">>,
     <<"d", "a", "v", "i", "d", "p", "a", "k", "m", "a", "n">> >>

\* get_channel_videos(channel_id, max_results=5)
ExampleMaxResults == 5

\* the numbers of videos a channel of the example may hold: none, a few, and
\* more than the example asks for
ExampleSizes == (0..MaxExampleSmall) \cup {ExampleMaxResults + 1}

ExampleName == <<"multi_channel_comparison.csv">>

\* video['channel_name'] = channel_name
WithChannelName(video, channel_name) ==
  [k \in DOMAIN video \cup {"channel_name"} |->
     IF k = "channel_name" THEN channel_name ELSE video[k]]

\* what no step of the example's loop changes
exKept == <<mode, exception, durVars, apiVars, csvVars, args, all_videos_data,
            batch_i, exit_code, outcome>>

\* for channel_name in channels: the call of get_channel_id_from_username
ExNextChannel ==
  /\ pc = "ex_loop"
  /\ channel_i < Len(Channels)
  /\ channel_i' = channel_i + 1
  /\ username' = Channels[channel_i + 1]
  /\ res_log' = <<>>
  /\ channel_id' = None
  /\ pc' = "res_lookup"
  /\ UNCHANGED <<all_data, info_outcome, timeline, cvVars, vdVars, exKept>>

\* if not channel_id: continue
ExNotFound ==
  /\ pc = "ex_check_channel"
  /\ channel_id = None
  /\ username' = <<>>
  /\ res_log' = <<>>
  /\ pc' = "ex_loop"
  /\ UNCHANGED <<channel_id, exVars, info_outcome, timeline, cvVars, vdVars, exKept>>

\* get_channel_info, then the call of get_channel_videos on the channel's
\* list of videos; the resolver's call is over
ExChannelInfo ==
  /\ pc = "ex_check_channel"
  /\ channel_id # None
  /\ info_outcome' \in InfoOutcomes
  /\ \E n \in ExampleSizes : channel' = ChannelOfSize(n)
  /\ max_results' = ExampleMaxResults
  /\ username' = <<>>
  /\ res_log' = <<>>
  /\ pc' = "cv_loop"
  /\ UNCHANGED <<exVars, channel_id, timeline, video_ids, next_page_token,
                 page_requests, request_token, response_token, pages_accepted,
                 pages_count, cv_error, cv_result, vdVars, exKept>>

\* videos_data = exporter.get_video_details(video_ids)
ExGetVideoDetails ==
  /\ pc = "ex_details"
  /\ vd_ids' = cv_result
  /\ vd_i' = 0
  /\ videos_data' = <<>>
  /\ pc' = "vd_loop"
  /\ UNCHANGED <<vd_log, vd_result, exVars, resVars, info_outcome, timeline, cvVars,
                 exKept>>

\* the channel's name is added to each record and the records are appended
\* to all_data; the iteration's locals are rebound by the next iteration
ExAddChannelName ==
  /\ pc = "ex_add_channel_name"
  /\ all_data' = all_data \o
       [j \in 1..Len(vd_result) |-> WithChannelName(vd_result[j], Channels[channel_i])]
  /\ username' = <<>> /\ res_log' = <<>> /\ channel_id' = None
  /\ channel' = <<>> /\ max_results' = 0 /\ video_ids' = <<>>
  /\ next_page_token' = NoToken /\ page_requests' = 0
  /\ request_token' = NoToken /\ response_token' = NoToken
  /\ pages_accepted' = <<>> /\ pages_count' = 0
  /\ cv_error' = FALSE /\ cv_result' = None
  /\ vd_ids' = <<>> /\ vd_i' = 0 /\ videos_data' = <<>>
  /\ vd_log' = <<>> /\ vd_result' = None
  /\ info_outcome' = "none"
  /\ timeline' = <<>>
  /\ pc' = "ex_loop"
  /\ UNCHANGED <<channel_i, exKept>>

\* filename = exporter.export_to_csv(all_data, "multi_channel_comparison.csv")
ExExport ==
  /\ pc = "ex_loop"
  /\ ~(channel_i < Len(Channels))
  /\ csv_rows' = all_data
  /\ filename' = ExampleName
  /\ pc' = "export_to_csv"
  /\ UNCHANGED <<now, files, csv_result, mode, exception, timeline, durVars, cvVars,
                 apiVars, vdVars, resVars, runVars>>

ExampleChannelComparison ==
  \/ ExNextChannel \/ ExNotFound \/ ExChannelInfo \/ ExGetVideoDetails
  \/ ExAddChannelName \/ ExExport

InitExample ==
  /\ mode = "example"
  /\ pc = "ex_loop"
  /\ DurIdle /\ CvIdle /\ ApiIdle /\ VdIdle /\ ResIdle /\ RunIdle
  /\ csv_rows = <<>>
  /\ filename = None
  /\ now = 0
  /\ files \in [{ExampleName} -> OldFiles]
  /\ csv_result = None

NextExample ==
  \/ ExampleChannelComparison \/ GetChannelIdFromUsername \/ GetChannelVideos
  \/ GetVideoDetails \/ ExportToCsv \/ ExportValueError

SpecExample == InitExample /\ [][NextExample]_vars

(***************************************************************************)
(* Claims.                                                                 *)
(***************************************************************************)
\* C6: on every token PT[nH][nM][nS], _parse_duration returns
\* hours*3600 + minutes*60 + seconds, an absent component counting as 0,
\* and does not raise.
C6_DurationFormula ==
  /\ pc # "parse_duration_raised"
  /\ pc = "parse_duration_done" =>
       total_seconds = Amount(hms[1]) * 3600 + Amount(hms[2]) * 60 + Amount(hms[3])

C6_Witness ==
  /\ pc = "parse_duration_done"
  /\ duration = <<"P", "T", "1", "H", "2", "M", "3", "S">>
  /\ total_seconds = 3723

\* C1: get_channel_videos returns at most N identifiers, whatever the pages
\* were; when the channel has at least N videos and no API error occurred it
\* returns exactly the first N identifiers, in the order of delivery.
C1_AtMostN ==
  pc = "cv_done" =>
    /\ Len(cv_result) <= Max(0, max_results)
    /\ (Len(channel) >= max_results /\ ~cv_error) =>
         /\ Len(cv_result) = max_results
         /\ cv_result = SubSeq(pages_accepted, 1, max_results)
         /\ cv_result = SubSeq(channel, 1, max_results)

C1_Witness ==
  /\ pc = "cv_done"
  /\ ~cv_error
  /\ max_results = API_MAX + 1
  /\ Len(channel) > max_results
  /\ Len(video_ids) > max_results
  /\ Len(cv_result) = max_results

\* C2: once a page request has failed with an API error after k accepted
\* pages, the call has returned normally, k + 1 requests were issued and no
\* more, and the result is the identifiers of those k pages cut to N.
C2_PartialOnError ==
  cv_error =>
    /\ pc = "cv_done"
    /\ page_requests = pages_count + 1
    /\ cv_result = SliceTo(pages_accepted, max_results)

C2_Witness ==
  /\ cv_error
  /\ pc = "cv_done"
  /\ pages_count = 2
  /\ Len(cv_result) = API_MAX + 1

\* the batches of the requests logged, concatenated in request order
RECURSIVE Requested(_)
Requested(log) ==
  IF Len(log) = 0 THEN <<>>
  ELSE Requested(SubSeq(log, 1, Len(log) - 1)) \o log[Len(log)].batch_ids

\* the ids the API delivered, concatenated in request order
RECURSIVE Delivered(_)
Delivered(log) ==
  IF Len(log) = 0 THEN <<>>
  ELSE Delivered(SubSeq(log, 1, Len(log) - 1)) \o log[Len(log)].delivered

Ceil(a, b) == (a + b - 1) \div b

\* C3: get_video_details on M identifiers issues ceil(M/50) detail requests,
\* each of at most 50 identifiers, and the requested chunks concatenated in
\* request order are the input sequence.
C3_PartitionLaw ==
  /\ \A k \in 1..Len(vd_log) : Len(vd_log[k].batch_ids) <= API_MAX
  /\ pc = "vd_loop" => Requested(vd_log) = Take(vd_ids, vd_i)
  /\ pc = "vd_done" =>
       /\ Len(vd_log) = Ceil(Len(vd_ids), API_MAX)
       /\ Requested(vd_log) = vd_ids

C3_Witness ==
  /\ pc = "vd_done"
  /\ Len(vd_ids) = 2 * API_MAX + 1
  /\ Len(vd_log) = 3
  /\ Len(vd_log[3].batch_ids) = 1

\* C4: when the request for a chunk fails with an API error, no record of
\* that chunk is in the result, every chunk - the later ones too - has been
\* requested exactly once, and the result holds the records of the other
\* chunks in chunk order.
C4_FailedChunkOmitted ==
  pc = "vd_done" =>
    /\ Requested(vd_log) = vd_ids
    /\ [j \in 1..Len(vd_result) |-> vd_result[j].video_id] = Delivered(vd_log)
    /\ \A k \in 1..Len(vd_log) :
         vd_log[k].outcome = "error" =>
           \A j \in 1..Len(vd_result) :
             ~Contains(vd_log[k].batch_ids, vd_result[j].video_id)

C4_Witness ==
  /\ pc = "vd_done"
  /\ Len(vd_log) = 3
  /\ vd_log[1].outcome = "items"
  /\ vd_log[2].outcome = "error"
  /\ vd_log[3].outcome = "items"
  /\ Len(vd_result) = API_MAX + 1

\* C5: flattening is total: whatever expected field an item lacks,
\* _process_video_data returns a record of the 12 fields and never raises,
\* so that get_video_details is never aborted by a missing field.
C5_FlatteningTotal ==
  /\ exception = "none"
  /\ \A j \in 1..Len(videos_data) :
       DOMAIN videos_data[j] = {FieldNames[f] : f \in 1..Len(FieldNames)}

\* the resolver's outcome as its requests and responses determine it
Expected(log) ==
  IF HasItems(log[1].outcome) THEN log[1].outcome.items[1]
  ELSE IF Len(log) = 2 /\ HasItems(log[2].outcome) THEN log[2].outcome.items[1]
  ELSE None

\* C7: the exact-username lookup is always the first request; the
\* channel-type search is issued only after a lookup without items; the
\* result is the lookup's first id, else the search's top hit, and None
\* exactly when both held no items or a request failed with an API error.
C7_LookupThenSearch ==
  /\ Len(res_log) >= 1 => res_log[1].request.call = "channels.list"
  /\ Len(res_log) >= 2 =>
       /\ Len(res_log) = 2
       /\ res_log[2].request.call = "search.list"
       /\ res_log[2].request.type = "channel"
       /\ res_log[1].outcome.kind = "response"
       /\ ~HasItems(res_log[1].outcome)
  /\ pc = "res_search" => Len(res_log) = 1
  /\ pc = "res_done" =>
       /\ Len(res_log) >= 1
       /\ channel_id = Expected(res_log)
       /\ channel_id = None <=>
            \/ \E k \in 1..Len(res_log) : res_log[k].outcome.kind = "HttpError"
            \/ Len(res_log) = 2 /\ \A k \in 1..2 : ~HasItems(res_log[k].outcome)

C7_Witness ==
  /\ pc = "res_done"
  /\ Len(res_log) = 2
  /\ Len(res_log[2].outcome.items) = 2
  /\ channel_id = ChannelIdOf(2)
  /\ res_log[2].outcome.items[2] = ChannelIdOf(1)

\* the rows a reader gets back from the file export_to_csv wrote
RowsReadBack == ReadBack(files[csv_result].text)

\* C10: export_to_csv creates the file fresh: whatever it held, it holds
\* afterwards the header row of the 12 fields in the documented order, then
\* one row per record in input order, and every row read back matches its
\* record field for field (as text: the file holds str(value)).
C10_CsvRoundTrip ==
  pc = "csv_done" =>
    /\ csv_result = TargetName(filename, now)
    /\ files[csv_result].exists
    /\ Len(RowsReadBack) = Len(csv_rows) + 1
    /\ RowsReadBack[1] = HeaderText
    /\ \A j \in 1..Len(csv_rows) :
         /\ Len(RowsReadBack[j + 1]) = Len(FieldNames)
         /\ \A f \in 1..Len(FieldNames) :
              RowsReadBack[j + 1][f] = FieldText(csv_rows[j], FieldNames[f])

C10_Witness ==
  /\ pc = "csv_done"
  /\ Len(csv_rows) = 2
  /\ \E f \in DOMAIN files : files[f].exists /\ csv_result # f
  /\ NeedsQuote(csv_rows[1].title)
  /\ Contains(csv_rows[2].title, "\"")
  /\ csv_rows[1].title # csv_rows[2].title

\* an API error (HttpError) occurred at some step of the run
ResolutionError == \E k \in 1..Len(res_log) : res_log[k].outcome.kind = "HttpError"

DetailError == \E k \in 1..Len(vd_log) : vd_log[k].outcome = "error"

TransportError == ResolutionError \/ info_outcome = "HttpError" \/ cv_error \/ DetailError

\* the export completed: the file was written and its name returned
ExportCompleted == csv_result # None /\ files[csv_result].exists

\* C8 as stated: the exit code is 0 when the export completes, and non-zero
\* whenever the channel reference resolves to nothing or an API error occurs
\* at any step (resolution, channel info, video listing, detail fetch).
C8_NonZeroOnAnyError ==
  pc = "exit" =>
    /\ ExportCompleted => exit_code = 0
    /\ (channel_id = None \/ TransportError) => exit_code # 0

\* C8 amended: the exit code is 0 exactly when the export completes, and
\* non-zero exactly when the channel reference resolves to nothing (an API
\* error during resolution included) or an exception reaches main; an API
\* error during channel info, video listing or detail fetch is caught in the
\* exporter and does not change the exit code.
C8_ExitCode ==
  pc = "exit" =>
    /\ exit_code \in {0, 1}
    /\ exit_code = 0 <=> ExportCompleted
    /\ exit_code # 0 <=> (channel_id = None \/ exception # "none")
    /\ ResolutionError => exit_code # 0
    /\ (channel_id # None /\ exception = "none") => exit_code = 0

C8_Witness ==
  /\ pc = "exit"
  /\ exit_code = 0
  /\ info_outcome = "HttpError"
  /\ cv_error
  /\ Len(cv_result) = 1
  /\ DetailError

\* the sleeps and the detail requests of the timeline
Sleeps == {k \in 1..Len(timeline) : timeline[k] = "sleep"}

Requests == {k \in 1..Len(timeline) : timeline[k] = "request"}

C11_ExtraKeyAccepted ==
  mode = "example" =>
    /\ exception # "ValueError"
    /\ pc = "ex_exported" =>
         /\ csv_result = ExampleName
         /\ files[ExampleName].exists
         /\ Len(ReadBack(files[ExampleName].text)) = Len(csv_rows) + 1

\* the run has stopped without an API error
StoppedErrorFree == pc = "cv_done" /\ ~cv_error

\* the latest response held no items
LastPageEmpty == ~cv_error /\ page_requests = pages_count + 1

\* the first request carries no cursor, and every later request carries the
\* cursor of the response before it
CursorCarried ==
  page_requests' = page_requests + 1 =>
    request_token' = (IF page_requests = 0 THEN NoToken ELSE response_token)

\* while the accumulator is short of N and the loop has not stopped, the
\* next step is a page request
KeepsRequesting ==
  pc = "cv_loop" /\ Len(video_ids) < max_results =>
    page_requests' = page_requests + 1

\* C12 as stated: in an error-free run every page request after the first
\* carries the cursor of the preceding response, the loop keeps requesting
\* pages, and it has stopped only when the accumulator has reached N or a
\* response carried no continuation cursor.
C12_StopsAtNOrNoCursor ==
  /\ [][CursorCarried /\ KeepsRequesting]_vars
  /\ [](StoppedErrorFree =>
          \/ Len(video_ids) >= max_results
          \/ page_requests >= 1 /\ response_token = NoToken)

\* C12 amended: in an error-free run every page request after the first
\* carries the cursor of the preceding response, the loop keeps requesting
\* pages, and it has stopped only when the accumulator has reached N, a
\* response held no items, or a response carried no continuation cursor.
C12_CursorChain ==
  /\ [][CursorCarried /\ KeepsRequesting]_vars
  /\ [](StoppedErrorFree =>
          \/ Len(video_ids) >= max_results
          \/ LastPageEmpty
          \/ page_requests >= 1 /\ response_token = NoToken)

\* an error-free run of three pages, each request carrying the cursor of the
\* response before it, stopped by a page without items that carried a cursor
C12_Witness ==
  /\ StoppedErrorFree
  /\ page_requests = 3
  /\ pages_count = 2
  /\ request_token # NoToken
  /\ response_token # NoToken
  /\ Len(video_ids) < max_results

\* an iteration that does not end the loop adds at least one identifier
IterationAdds ==
  page_requests' = page_requests + 1 /\ pc' = "cv_loop" =>
    Len(video_ids') >= Len(video_ids) + 1

\* C13: whatever the API answers, a cursor on every page included,
\* get_channel_videos ends (by returning or by raising); it issues no page
\* request when N <= 0 and at most N when N >= 1, every iteration that
\* does not end the loop adding at least one identifier.
C13_TerminatesWithinN ==
  /\ [](page_requests <= Max(0, max_results))
  /\ [][IterationAdds]_vars
  /\ <>(pc \in {"cv_done", "raised"})

\* N requests were issued for N = 3, every page carrying a cursor
C13_Witness ==
  /\ pc = "cv_done"
  /\ ~cv_error
  /\ max_results = 3
  /\ page_requests = 3
  /\ pages_count = 3
  /\ response_token # NoToken

====
